---- MODULE Spec2Model ----
(***************************************************************************)
(* Core Timer Services (MdeModulePkg/Core/Dxe/Event/timer.c).              *)
(*                                                                         *)
(* The state is the sorted timer list, the timer fields of every event,    *)
(* the system time, the signalled state of mEfiCheckTimerEvent and the     *)
(* position of CoreCheckTimers.  CoreSetTimer and CoreTimerTick are one    *)
(* step each; CoreCheckTimers is one step per loop iteration, because its  *)
(* loop need not end and because CoreTimerTick, which runs at              *)
(* TPL_HIGH_LEVEL, may come between two iterations.                        *)
(*                                                                         *)
(* The second half of the module takes CoreSetTimer and CoreCheckTimers    *)
(* apart into the steps between which CoreTimerTick may interrupt them,    *)
(* with the two locks and the task priority level as state.                *)
(***************************************************************************)
EXTENDS Integers, Sequences, FiniteSets, TLC

VARIABLES
  mEfiTimerList,        \* the timer list, head first: a sequence of events
  Timer,                \* Event->u.Timer of every event: TriggerTime, Period, Link
  mEfiSystemTime,       \* UINT64 system time
  CheckTimerSignalled,  \* mEfiCheckTimerEvent is signalled, its notify not yet run
  pc,                   \* position of CoreSetTimer / CoreCheckTimers; "idle": in neither
  SystemTime,           \* CoreCheckTimers' local snapshot of the system time
  call,                 \* the most recent call: its arguments and what it returned
  tickSum,              \* history: the sum of every Duration given to CoreTimerTick
  fired,                \* history: CoreSignalEvent(e) calls since e was last set
  armedAt,              \* history: tickSum when e was last set
  mEfiTimerLock,        \* EFI_LOCK of the timer list: Tpl, OwnerTpl, Lock
  mEfiSystemTimeLock,   \* EFI_LOCK of the system time: Tpl, OwnerTpl, Lock
  gEfiCurrentTpl,       \* the task priority level the processor runs at
  pass,                 \* history: the run of CoreCheckTimers in progress
  frame                 \* arguments and locals of the routine that a tick interrupts

\* The locks and the task priority level.
tpl == <<mEfiTimerLock, mEfiSystemTimeLock, gEfiCurrentTpl>>

vars == <<mEfiTimerList, Timer, mEfiSystemTime, CheckTimerSignalled, pc,
          SystemTime, call, tickSum, fired, armedAt, mEfiTimerLock,
          mEfiSystemTimeLock, gEfiCurrentTpl, pass, frame>>

----------------------------------------------------------------------------
(* Bounds of the model *)

\* Bits kept of a UINT64: arithmetic on times is modulo 2^Width.
Width == 8
\* The latest time the ticks of Spec reach.
MaxTime == 4
\* The latest time the ticks of SpecOrder and SpecArgs reach.
MaxOrderTime == 1
\* The latest time the ticks of SpecPeriodic reach.
MaxPeriodicTime == 4
\* The latest time the ticks of SpecScenario reach.
MaxScenarioTime == 101
\* fired[e] counts up to MaxFired and stays there.
MaxFired == 3
\* The latest time the ticks of SpecPreempt reach.
MaxPreemptTime == 2
\* pass.Iterations counts up to MaxIterations and stays there.
MaxIterations == 5

Modulus == 2 ^ Width

----------------------------------------------------------------------------
(* Handles, argument values *)

NULL == "NULL"
\* Events created with EVT_TIMER in their Type.
TimerEvents == {"A", "B", "C"}
\* An event with a good Signature and without EVT_TIMER.
PlainEvents == {"N"}
Events == TimerEvents \cup PlainEvents
\* A non-NULL pointer to something that has no EVENT_SIGNATURE.
BadHandles == {"X"}
Handles == Events \cup BadHandles \cup {NULL}

\* EFI_TIMER_DELAY
TimerCancel == 0
TimerPeriodic == 1
TimerRelative == 2
\* The values the Type argument is drawn from, two of them out of range.
Types == -1 .. 3

\* EFI_TPL
TPL_APPLICATION == 4
TPL_HIGH_LEVEL == 31

\* EFI_LOCK_STATE; EfiLockFault stands for the failure of the ASSERT that
\* CoreAcquireLock makes on a lock that is already acquired.
EfiLockReleased == "EfiLockReleased"
EfiLockAcquired == "EfiLockAcquired"
EfiLockFault == "EfiLockFault"

EFI_SUCCESS == "EFI_SUCCESS"
EFI_INVALID_PARAMETER == "EFI_INVALID_PARAMETER"

\* TriggerTime arguments of CoreSetTimer; the last one overflows the addition.
TriggerTimes == {0, 1, 2, Modulus - 1}
\* Duration arguments of CoreTimerTick.
Durations == {0, 1, 2}

----------------------------------------------------------------------------
(* Helpers *)

\* UINT64 addition.
Add64(a, b) == (a + b) % Modulus

Min(a, b) == IF a <= b THEN a ELSE b

\* Event->Signature == EVENT_SIGNATURE
HasSignature(h) == h \in Events

\* Event->Type & EVT_TIMER
HasEvtTimer(h) == h \in TimerEvents

\* !IsListEmpty (&mEfiTimerList)
IsListEmpty(list) == list = <<>>

\* CR (mEfiTimerList.ForwardLink, IEVENT, u.Timer.Link, EVENT_SIGNATURE)
FirstEvent(list) == Head(list)

\* The position of the first occurrence of e in list, 0 if there is none.
RECURSIVE IndexOf(_, _, _)
IndexOf(list, e, i) ==
  IF i > Len(list) THEN 0
  ELSE IF list[i] = e THEN i
  ELSE IndexOf(list, e, i + 1)

\* RemoveEntryList (&Event->u.Timer.Link): unlinks the entry.
RemoveEntryList(list, e) ==
  LET i == IndexOf(list, e, 1)
  IN  IF i = 0 THEN list
      ELSE SubSeq(list, 1, i - 1) \o SubSeq(list, i + 1, Len(list))

\* InsertTailList (Link, Entry): links Entry right before position i
\* (position Len(list) + 1 is the list head itself, that is the tail).
InsertTailList(list, i, e) ==
  SubSeq(list, 1, i - 1) \o <<e>> \o SubSeq(list, i, Len(list))

\* CoreSignalEvent (mEfiCheckTimerEvent): signals given before the notify
\* function runs collapse into one pending run.
SignalCheckTimerEvent(pending, signal) == pending \/ signal

\* EFI_INITIALIZE_LOCK_VARIABLE (Priority)
EFI_INITIALIZE_LOCK_VARIABLE(Priority) ==
  [Tpl |-> Priority, OwnerTpl |-> TPL_APPLICATION, Lock |-> EfiLockReleased]

\* CoreAcquireLock (Lock) at the task priority level CurrentTpl: the level
\* is raised to Lock->Tpl, the level it had is kept in Lock->OwnerTpl.
\* Acquiring a lock that is acquired, or whose level is below the current
\* one, is fatal.
CoreAcquireLock(Lock, CurrentTpl) ==
  IF Lock.Lock = EfiLockReleased /\ CurrentTpl <= Lock.Tpl
    THEN [Lock EXCEPT !.OwnerTpl = CurrentTpl, !.Lock = EfiLockAcquired]
    ELSE [Lock EXCEPT !.Lock = EfiLockFault]

\* CoreReleaseLock (Lock): the lock is released; the task priority level
\* goes back to Lock->OwnerTpl.
CoreReleaseLock(Lock) ==
  IF Lock.Lock = EfiLockAcquired
    THEN [Lock EXCEPT !.Lock = EfiLockReleased]
    ELSE [Lock EXCEPT !.Lock = EfiLockFault]

\* The value of frame when neither CoreSetTimer nor CoreCheckTimers is
\* between two of its steps.
NoFrame == [Event |-> NULL, Type |-> TimerCancel, TriggerTime |-> 0]

\* The value of pass when no run of CoreCheckTimers is in progress.
NoPass == [Length |-> 0, Iterations |-> 0, Signalled |-> {}]

----------------------------------------------------------------------------
(* The timer list *)

\* Faulty variant: the scan stops at an entry with the same TriggerTime.
ScanLinkBeforeEqual(list, T, TriggerTime, i) ==
  LET Later == {j \in i .. Len(list) : T[list[j]].TriggerTime >= TriggerTime}
  IN  IF Later = {} THEN Len(list) + 1
      ELSE CHOOSE j \in Later : \A k \in Later : j <= k

\* The loop of CoreInsertEventTimer: the first position at or after i whose
\* event has a TriggerTime above the new one, Len(list) + 1 if there is none.
RECURSIVE ScanLink(_, _, _, _)
ScanLink(list, T, TriggerTime, i) ==
  IF i > Len(list) THEN i
  ELSE IF T[list[i]].TriggerTime > TriggerTime THEN i
  ELSE ScanLink(list, T, TriggerTime, i + 1)

\* Faulty variant: the scan is skipped and Event is linked at the tail.
InsertEventAtTail(Q, Event) ==
  [List  |-> InsertTailList(Q.List, Len(Q.List) + 1, Event),
   Timer |-> [Q.Timer EXCEPT ![Event].Link = TRUE]]

\* CoreInsertEventTimer (Event) on the queue Q = [List, Timer]: links Event
\* before the first entry that triggers later.
CoreInsertEventTimer(Q, Event) ==
  [List  |-> InsertTailList(Q.List,
                            ScanLink(Q.List, Q.Timer, Q.Timer[Event].TriggerTime, 1),
                            Event),
   Timer |-> [Q.Timer EXCEPT ![Event].Link = TRUE]]

\* RemoveEntryList (&Event->u.Timer.Link); Event->u.Timer.Link.ForwardLink = NULL;
UnlinkEvent(Q, Event) ==
  [List  |-> RemoveEntryList(Q.List, Event),
   Timer |-> [Q.Timer EXCEPT ![Event].Link = FALSE]]

----------------------------------------------------------------------------
(* CoreSetTimer *)

\* Faulty variant: the EVT_TIMER bit of the event's Type is not looked at.
ValidSetTimerArgsAnyEvent(UserEvent, Type) ==
  /\ UserEvent # NULL
  /\ HasSignature(UserEvent)
  /\ ~(Type < 0 \/ Type > TimerRelative)

\* The three checks CoreSetTimer makes before it takes the lock.
ValidSetTimerArgs(UserEvent, Type) ==
  /\ UserEvent # NULL
  /\ HasSignature(UserEvent)
  /\ ~(Type < 0 \/ Type > TimerRelative \/ ~HasEvtTimer(UserEvent))

\* Faulty variant: an event that is queued is not removed before it is inserted.
SetTimerLockedNoRemove(Q, now, Event, Type, TriggerTime) ==
  LET Q2 == [Q EXCEPT !.Timer[Event].TriggerTime = 0,
                      !.Timer[Event].Period = 0]
      Q3 == IF Type = TimerPeriodic
              THEN [Q2 EXCEPT !.Timer[Event].Period = TriggerTime]
              ELSE Q2
      Q4 == [Q3 EXCEPT !.Timer[Event].TriggerTime = Add64(now, TriggerTime)]
  IN  IF Type # TimerCancel
        THEN [Q |-> CoreInsertEventTimer(Q4, Event), Signal |-> TriggerTime = 0]
        ELSE [Q |-> Q2, Signal |-> FALSE]

\* Faulty variant: TriggerTime and Period are not zeroed before the Type is looked at.
SetTimerLockedNoReset(Q, now, Event, Type, TriggerTime) ==
  LET Q1 == IF Q.Timer[Event].Link THEN UnlinkEvent(Q, Event) ELSE Q
      Q3 == IF Type = TimerPeriodic
              THEN [Q1 EXCEPT !.Timer[Event].Period = TriggerTime]
              ELSE Q1
      Q4 == [Q3 EXCEPT !.Timer[Event].TriggerTime = Add64(now, TriggerTime)]
  IN  IF Type # TimerCancel
        THEN [Q |-> CoreInsertEventTimer(Q4, Event), Signal |-> TriggerTime = 0]
        ELSE [Q |-> Q1, Signal |-> FALSE]

\* Faulty variant: the test for a zero TriggerTime is made for TimerCancel too.
SetTimerLockedSignalOnCancel(Q, now, Event, Type, TriggerTime) ==
  LET Q1 == IF Q.Timer[Event].Link THEN UnlinkEvent(Q, Event) ELSE Q
      Q2 == [Q1 EXCEPT !.Timer[Event].TriggerTime = 0,
                       !.Timer[Event].Period = 0]
      Q3 == IF Type = TimerPeriodic
              THEN [Q2 EXCEPT !.Timer[Event].Period = TriggerTime]
              ELSE Q2
      Q4 == [Q3 EXCEPT !.Timer[Event].TriggerTime = Add64(now, TriggerTime)]
  IN  IF Type # TimerCancel
        THEN [Q |-> CoreInsertEventTimer(Q4, Event), Signal |-> TriggerTime = 0]
        ELSE [Q |-> Q2, Signal |-> TriggerTime = 0]

\* Faulty variant: a zero TriggerTime does not signal mEfiCheckTimerEvent.
SetTimerLockedNoSignal(Q, now, Event, Type, TriggerTime) ==
  LET Q1 == IF Q.Timer[Event].Link THEN UnlinkEvent(Q, Event) ELSE Q
      Q2 == [Q1 EXCEPT !.Timer[Event].TriggerTime = 0,
                       !.Timer[Event].Period = 0]
      Q3 == IF Type = TimerPeriodic
              THEN [Q2 EXCEPT !.Timer[Event].Period = TriggerTime]
              ELSE Q2
      Q4 == [Q3 EXCEPT !.Timer[Event].TriggerTime = Add64(now, TriggerTime)]
  IN  IF Type # TimerCancel
        THEN [Q |-> CoreInsertEventTimer(Q4, Event), Signal |-> FALSE]
        ELSE [Q |-> Q2, Signal |-> FALSE]

\* What CoreSetTimer does to the queue between taking and releasing
\* mEfiTimerLock, now being what CoreCurrentSystemTime () returns.
\* Signal: CoreSignalEvent (mEfiCheckTimerEvent) was called.
SetTimerLocked(Q, now, Event, Type, TriggerTime) ==
  LET Q1 == IF Q.Timer[Event].Link THEN UnlinkEvent(Q, Event) ELSE Q
      Q2 == [Q1 EXCEPT !.Timer[Event].TriggerTime = 0,
                       !.Timer[Event].Period = 0]
      Q3 == IF Type = TimerPeriodic
              THEN [Q2 EXCEPT !.Timer[Event].Period = TriggerTime]
              ELSE Q2
      Q4 == [Q3 EXCEPT !.Timer[Event].TriggerTime = Add64(now, TriggerTime)]
  IN  IF Type # TimerCancel
        THEN [Q |-> CoreInsertEventTimer(Q4, Event), Signal |-> TriggerTime = 0]
        ELSE [Q |-> Q2, Signal |-> FALSE]

\* The locks a successful CoreSetTimer acquires, in order.
SetTimerLocks(Type) ==
  IF Type # TimerCancel
    THEN <<"mEfiTimerLock", "mEfiSystemTimeLock">>
    ELSE <<"mEfiTimerLock">>

\* CoreSetTimer as one step, from CoreAcquireLock to CoreReleaseLock; it is
\* not called while CoreCheckTimers holds mEfiTimerLock at TPL_HIGH_LEVEL - 1.
CoreSetTimer(UserEvent, Type, TriggerTime) ==
  /\ pc = "idle"
  /\ IF ~ValidSetTimerArgs(UserEvent, Type)
       THEN /\ call' = [op |-> "CoreSetTimer", Event |-> UserEvent, Type |-> Type,
                        TriggerTime |-> TriggerTime,
                        Status |-> EFI_INVALID_PARAMETER, Locks |-> <<>>,
                        WasQueued |-> FALSE, Repeat |-> FALSE]
            /\ UNCHANGED <<mEfiTimerList, Timer, mEfiSystemTime,
                           CheckTimerSignalled, pc, SystemTime, tickSum,
                           fired, armedAt, tpl, pass, frame>>
       ELSE LET R == SetTimerLocked([List |-> mEfiTimerList, Timer |-> Timer],
                                    mEfiSystemTime, UserEvent, Type, TriggerTime)
            IN  /\ mEfiTimerList' = R.Q.List
                /\ Timer' = R.Q.Timer
                /\ CheckTimerSignalled' = SignalCheckTimerEvent(CheckTimerSignalled, R.Signal)
                /\ call' = [op |-> "CoreSetTimer", Event |-> UserEvent,
                            Type |-> Type, TriggerTime |-> TriggerTime,
                            Status |-> EFI_SUCCESS, Locks |-> SetTimerLocks(Type),
                            WasQueued |-> Timer[UserEvent].Link,
                            Repeat |-> /\ call.op = "CoreSetTimer"
                                       /\ call.Status = EFI_SUCCESS
                                       /\ call.Event = UserEvent
                                       /\ call.Type = Type]
                /\ fired' = [fired EXCEPT ![UserEvent] = 0]
                /\ armedAt' = [armedAt EXCEPT ![UserEvent] =
                                 IF Type # TimerCancel THEN tickSum ELSE 0]
                /\ UNCHANGED <<mEfiSystemTime, pc, SystemTime, tickSum, tpl, pass, frame>>

----------------------------------------------------------------------------
(* CoreTimerTick *)

\* Faulty variant: the comparison with the time is the wrong way round.
HeadNotYetDue(list, T, now) ==
  /\ ~IsListEmpty(list)
  /\ T[FirstEvent(list)].TriggerTime >= now

\* The test CoreTimerTick makes after it has updated the system time, and
\* CoreCheckTimers before every iteration with the time it has read.
HeadExpired(list, T, now) ==
  /\ ~IsListEmpty(list)
  /\ T[FirstEvent(list)].TriggerTime <= now

\* Faulty variant: the Duration is stored instead of added.
TimerTickSetsTime(Duration) ==
  /\ gEfiCurrentTpl < TPL_HIGH_LEVEL
  /\ mEfiSystemTime' = Duration
  /\ CheckTimerSignalled' =
       SignalCheckTimerEvent(CheckTimerSignalled,
                             HeadExpired(mEfiTimerList, Timer, mEfiSystemTime'))
  /\ tickSum' = tickSum + Duration
  /\ call' = [op |-> "CoreTimerTick", Event |-> NULL, Type |-> TimerCancel,
              TriggerTime |-> Duration, Status |-> EFI_SUCCESS,
              Locks |-> <<"mEfiSystemTimeLock">>,
              WasQueued |-> FALSE, Repeat |-> FALSE]
  /\ UNCHANGED <<mEfiTimerList, Timer, pc, SystemTime, fired, armedAt, tpl, pass, frame>>

\* Faulty variant: mEfiCheckTimerEvent is signalled whenever the list is not
\* empty, the TriggerTime of its head is not compared with the time.
TimerTickSignalsNonEmpty(Duration) ==
  /\ gEfiCurrentTpl < TPL_HIGH_LEVEL
  /\ mEfiSystemTime' = Add64(mEfiSystemTime, Duration)
  /\ CheckTimerSignalled' =
       SignalCheckTimerEvent(CheckTimerSignalled, ~IsListEmpty(mEfiTimerList))
  /\ tickSum' = tickSum + Duration
  /\ call' = [op |-> "CoreTimerTick", Event |-> NULL, Type |-> TimerCancel,
              TriggerTime |-> Duration, Status |-> EFI_SUCCESS,
              Locks |-> <<"mEfiSystemTimeLock">>,
              WasQueued |-> FALSE, Repeat |-> FALSE]
  /\ UNCHANGED <<mEfiTimerList, Timer, pc, SystemTime, fired, armedAt, tpl, pass, frame>>

\* Faulty variant: mEfiCheckTimerEvent is signalled only by the tick that
\* carries the time to or past the TriggerTime of the head.
TimerTickSignalsOnce(Duration) ==
  /\ gEfiCurrentTpl < TPL_HIGH_LEVEL
  /\ mEfiSystemTime' = Add64(mEfiSystemTime, Duration)
  /\ CheckTimerSignalled' =
       SignalCheckTimerEvent(CheckTimerSignalled,
                             /\ HeadExpired(mEfiTimerList, Timer, mEfiSystemTime')
                             /\ ~HeadExpired(mEfiTimerList, Timer, mEfiSystemTime))
  /\ tickSum' = tickSum + Duration
  /\ call' = [op |-> "CoreTimerTick", Event |-> NULL, Type |-> TimerCancel,
              TriggerTime |-> Duration, Status |-> EFI_SUCCESS,
              Locks |-> <<"mEfiSystemTimeLock">>,
              WasQueued |-> FALSE, Repeat |-> FALSE]
  /\ UNCHANGED <<mEfiTimerList, Timer, pc, SystemTime, fired, armedAt, tpl, pass, frame>>

\* CoreTimerTick, from CoreAcquireLock to CoreReleaseLock: it is called from
\* the timer interrupt, which is masked at TPL_HIGH_LEVEL.
CoreTimerTick(Duration) ==
  /\ gEfiCurrentTpl < TPL_HIGH_LEVEL
  /\ mEfiSystemTime' = Add64(mEfiSystemTime, Duration)
  /\ CheckTimerSignalled' =
       SignalCheckTimerEvent(CheckTimerSignalled,
                             HeadExpired(mEfiTimerList, Timer, mEfiSystemTime'))
  /\ tickSum' = tickSum + Duration
  /\ call' = [op |-> "CoreTimerTick", Event |-> NULL, Type |-> TimerCancel,
              TriggerTime |-> Duration, Status |-> EFI_SUCCESS,
              Locks |-> <<"mEfiSystemTimeLock">>,
              WasQueued |-> FALSE, Repeat |-> FALSE]
  /\ UNCHANGED <<mEfiTimerList, Timer, pc, SystemTime, fired, armedAt, tpl, pass, frame>>

----------------------------------------------------------------------------
(* CoreCheckTimers *)

\* Faulty variant: the Period is not tested, every expired timer is set again.
CheckTimersIterationAlwaysRearm(Q, now) ==
  LET Event == FirstEvent(Q.List)
      Q1 == UnlinkEvent(Q, Event)
      Next64 == Add64(Q1.Timer[Event].TriggerTime, Q1.Timer[Event].Period)
      Late == Next64 <= now
      Q2 == [Q1 EXCEPT !.Timer[Event].TriggerTime = IF Late THEN now ELSE Next64]
  IN  [Q |-> CoreInsertEventTimer(Q2, Event), Signal |-> Late]

\* Faulty variant: the new trigger time is counted from now, not from the old one.
CheckTimersIterationFromNow(Q, now) ==
  LET Event == FirstEvent(Q.List)
      Q1 == UnlinkEvent(Q, Event)
      Next64 == Add64(now, Q1.Timer[Event].Period)
      Late == Next64 <= now
      Q2 == [Q1 EXCEPT !.Timer[Event].TriggerTime = IF Late THEN now ELSE Next64]
  IN  IF Q1.Timer[Event].Period # 0
        THEN [Q |-> CoreInsertEventTimer(Q2, Event), Signal |-> Late]
        ELSE [Q |-> Q1, Signal |-> FALSE]

\* One iteration of the loop of CoreCheckTimers on a head that has expired.
\* Signal: CoreSignalEvent (mEfiCheckTimerEvent) was called.
CheckTimersIteration(Q, now) ==
  LET Event == FirstEvent(Q.List)
      Q1 == UnlinkEvent(Q, Event)
      Next64 == Add64(Q1.Timer[Event].TriggerTime, Q1.Timer[Event].Period)
      Late == Next64 <= now
      Q2 == [Q1 EXCEPT !.Timer[Event].TriggerTime = IF Late THEN now ELSE Next64]
  IN  IF Q1.Timer[Event].Period # 0
        THEN [Q |-> CoreInsertEventTimer(Q2, Event), Signal |-> Late]
        ELSE [Q |-> Q1, Signal |-> FALSE]

\* The notify function of mEfiCheckTimerEvent is entered, which ends the
\* pending state of the event; the lock is taken, the time is read.
CheckTimersBegin ==
  /\ pc = "idle"
  /\ CheckTimerSignalled
  /\ gEfiCurrentTpl < mEfiTimerLock.Tpl
  /\ pc' = "loop"
  /\ CheckTimerSignalled' = FALSE
  /\ mEfiTimerLock' = CoreAcquireLock(mEfiTimerLock, gEfiCurrentTpl)
  /\ gEfiCurrentTpl' = mEfiTimerLock.Tpl
  /\ SystemTime' = mEfiSystemTime
  /\ pass' = [Length |-> Len(mEfiTimerList), Iterations |-> 0, Signalled |-> {}]
  /\ call' = [op |-> "CoreCheckTimers", Event |-> NULL, Type |-> TimerCancel,
              TriggerTime |-> 0, Status |-> EFI_SUCCESS,
              Locks |-> <<"mEfiTimerLock", "mEfiSystemTimeLock">>,
              WasQueued |-> FALSE, Repeat |-> FALSE]
  /\ UNCHANGED <<mEfiTimerList, Timer, mEfiSystemTime, tickSum, fired, armedAt,
                 mEfiSystemTimeLock, frame>>

\* The head has expired: it is removed, signalled and, if periodic, set again.
CheckTimersExpire ==
  /\ pc = "loop"
  /\ HeadExpired(mEfiTimerList, Timer, SystemTime)
  /\ LET Event == FirstEvent(mEfiTimerList)
         R == CheckTimersIteration([List |-> mEfiTimerList, Timer |-> Timer],
                                   SystemTime)
     IN  /\ mEfiTimerList' = R.Q.List
         /\ Timer' = R.Q.Timer
         /\ CheckTimerSignalled' = SignalCheckTimerEvent(CheckTimerSignalled, R.Signal)
         /\ fired' = [fired EXCEPT ![Event] = Min(@ + 1, MaxFired)]
         /\ pass' = [pass EXCEPT !.Iterations = Min(@ + 1, MaxIterations),
                                 !.Signalled = @ \cup {Event}]
         /\ call' = [op |-> "CoreCheckTimers", Event |-> Event,
                     Type |-> TimerCancel, TriggerTime |-> 0,
                     Status |-> EFI_SUCCESS, Locks |-> <<>>,
                     WasQueued |-> TRUE, Repeat |-> FALSE]
  /\ UNCHANGED <<mEfiSystemTime, pc, SystemTime, tickSum, armedAt, tpl, frame>>

\* The list is empty or its head has not expired: the lock is released.
CheckTimersEnd ==
  /\ pc = "loop"
  /\ ~HeadExpired(mEfiTimerList, Timer, SystemTime)
  /\ pc' = "idle"
  /\ SystemTime' = 0
  /\ mEfiTimerLock' = CoreReleaseLock(mEfiTimerLock)
  /\ gEfiCurrentTpl' = mEfiTimerLock.OwnerTpl
  /\ pass' = NoPass
  /\ call' = [op |-> "CoreCheckTimers", Event |-> NULL, Type |-> TimerCancel,
              TriggerTime |-> 0, Status |-> EFI_SUCCESS, Locks |-> <<>>,
              WasQueued |-> FALSE, Repeat |-> FALSE]
  /\ UNCHANGED <<mEfiTimerList, Timer, mEfiSystemTime, CheckTimerSignalled,
                 tickSum, fired, armedAt, mEfiSystemTimeLock, frame>>

----------------------------------------------------------------------------
(* CoreSetTimer and CoreCheckTimers step by step *)

\* Between two of these steps the timer interrupt may call CoreTimerTick,
\* unless the task priority level is TPL_HIGH_LEVEL.  Steps that CoreTimerTick
\* cannot tell apart (writes to an event that is not in the list) are taken
\* together.  pc names the step that comes next.

\* The values of pc inside CoreSetTimer and inside CoreCheckTimers.
InSetTimer == {"SetTimer.remove", "SetTimer.time", "SetTimer.clock",
               "SetTimer.insert", "SetTimer.signal", "SetTimer.release"}
InCheckTimers == {"CheckTimers.time", "CheckTimers.clock", "loop",
                  "CheckTimers.period"}

\* Faulty variant: mEfiTimerLock is not acquired.
SetTimerEnterNoLock(UserEvent, Type, TriggerTime) ==
  /\ pc = "idle"
  /\ ValidSetTimerArgs(UserEvent, Type)
  /\ pc' = "SetTimer.remove"
  /\ frame' = [Event |-> UserEvent, Type |-> Type, TriggerTime |-> TriggerTime]
  /\ call' = [op |-> "CoreSetTimer", Event |-> UserEvent, Type |-> Type,
              TriggerTime |-> TriggerTime, Status |-> NULL, Locks |-> <<>>,
              WasQueued |-> Timer[UserEvent].Link, Repeat |-> FALSE]
  /\ UNCHANGED <<mEfiTimerList, Timer, mEfiSystemTime, CheckTimerSignalled,
                 SystemTime, tickSum, fired, armedAt, tpl, pass>>

\* CoreSetTimer up to CoreAcquireLock (&mEfiTimerLock).
SetTimerEnter(UserEvent, Type, TriggerTime) ==
  /\ pc = "idle"
  /\ IF ~ValidSetTimerArgs(UserEvent, Type)
       THEN /\ call' = [op |-> "CoreSetTimer", Event |-> UserEvent, Type |-> Type,
                        TriggerTime |-> TriggerTime,
                        Status |-> EFI_INVALID_PARAMETER, Locks |-> <<>>,
                        WasQueued |-> FALSE, Repeat |-> FALSE]
            /\ UNCHANGED <<mEfiTimerList, Timer, mEfiSystemTime,
                           CheckTimerSignalled, pc, SystemTime, tickSum,
                           fired, armedAt, tpl, pass, frame>>
       ELSE /\ mEfiTimerLock' = CoreAcquireLock(mEfiTimerLock, gEfiCurrentTpl)
            /\ gEfiCurrentTpl' = mEfiTimerLock.Tpl
            /\ pc' = "SetTimer.remove"
            /\ frame' = [Event |-> UserEvent, Type |-> Type,
                         TriggerTime |-> TriggerTime]
            /\ call' = [op |-> "CoreSetTimer", Event |-> UserEvent, Type |-> Type,
                        TriggerTime |-> TriggerTime, Status |-> NULL,
                        Locks |-> <<"mEfiTimerLock">>,
                        WasQueued |-> Timer[UserEvent].Link, Repeat |-> FALSE]
            /\ UNCHANGED <<mEfiTimerList, Timer, mEfiSystemTime,
                           CheckTimerSignalled, SystemTime, tickSum, fired,
                           armedAt, mEfiSystemTimeLock, pass>>

\* The event is removed from the list if it is queued, its TriggerTime and
\* Period are zeroed, and for TimerPeriodic its Period is set.
SetTimerRemove ==
  /\ pc = "SetTimer.remove"
  /\ LET Event == frame.Event
         Q  == [List |-> mEfiTimerList, Timer |-> Timer]
         Q1 == IF Timer[Event].Link THEN UnlinkEvent(Q, Event) ELSE Q
         Q2 == [Q1 EXCEPT !.Timer[Event].TriggerTime = 0,
                          !.Timer[Event].Period = 0]
         Q3 == IF frame.Type = TimerPeriodic
                 THEN [Q2 EXCEPT !.Timer[Event].Period = frame.TriggerTime]
                 ELSE Q2
     IN  /\ mEfiTimerList' = Q3.List
         /\ Timer' = Q3.Timer
         /\ fired' = [fired EXCEPT ![Event] = 0]
         /\ armedAt' = [armedAt EXCEPT ![Event] = 0]
  /\ pc' = IF frame.Type # TimerCancel THEN "SetTimer.time" ELSE "SetTimer.release"
  /\ call' = [call EXCEPT !.op = "CoreSetTimer", !.Event = frame.Event,
                          !.Type = frame.Type, !.TriggerTime = frame.TriggerTime,
                          !.Status = NULL]
  /\ UNCHANGED <<mEfiSystemTime, CheckTimerSignalled, SystemTime, tickSum, tpl,
                 pass, frame>>

\* CoreCurrentSystemTime: CoreAcquireLock (&mEfiSystemTimeLock).
SetTimerAcquireTime ==
  /\ pc = "SetTimer.time"
  /\ mEfiSystemTimeLock' = CoreAcquireLock(mEfiSystemTimeLock, gEfiCurrentTpl)
  /\ gEfiCurrentTpl' = mEfiSystemTimeLock.Tpl
  /\ pc' = "SetTimer.clock"
  /\ call' = [call EXCEPT !.op = "CoreSetTimer", !.Event = frame.Event,
                          !.Type = frame.Type, !.TriggerTime = frame.TriggerTime,
                          !.Status = NULL,
                          !.Locks = <<"mEfiTimerLock", "mEfiSystemTimeLock">>]
  /\ UNCHANGED <<mEfiTimerList, Timer, mEfiSystemTime, CheckTimerSignalled,
                 SystemTime, tickSum, fired, armedAt, mEfiTimerLock, pass, frame>>

\* Faulty variant: CoreCurrentSystemTime returns without CoreReleaseLock.
SetTimerReadTimeKeepsLock ==
  /\ pc = "SetTimer.clock"
  /\ Timer' = [Timer EXCEPT ![frame.Event].TriggerTime =
                              Add64(mEfiSystemTime, frame.TriggerTime)]
  /\ armedAt' = [armedAt EXCEPT ![frame.Event] = tickSum]
  /\ pc' = "SetTimer.insert"
  /\ UNCHANGED <<mEfiTimerList, mEfiSystemTime, CheckTimerSignalled, SystemTime,
                 call, tickSum, fired, tpl, pass, frame>>

\* CoreCurrentSystemTime reads the time and releases mEfiSystemTimeLock; the
\* sum of the time and the TriggerTime argument is stored in the event.
SetTimerReadTime ==
  /\ pc = "SetTimer.clock"
  /\ Timer' = [Timer EXCEPT ![frame.Event].TriggerTime =
                              Add64(mEfiSystemTime, frame.TriggerTime)]
  /\ armedAt' = [armedAt EXCEPT ![frame.Event] = tickSum]
  /\ mEfiSystemTimeLock' = CoreReleaseLock(mEfiSystemTimeLock)
  /\ gEfiCurrentTpl' = mEfiSystemTimeLock.OwnerTpl
  /\ pc' = "SetTimer.insert"
  /\ UNCHANGED <<mEfiTimerList, mEfiSystemTime, CheckTimerSignalled, SystemTime,
                 call, tickSum, fired, mEfiTimerLock, pass, frame>>

\* CoreInsertEventTimer (Event)
SetTimerInsert ==
  /\ pc = "SetTimer.insert"
  /\ LET Q == CoreInsertEventTimer([List |-> mEfiTimerList, Timer |-> Timer],
                                   frame.Event)
     IN  /\ mEfiTimerList' = Q.List
         /\ Timer' = Q.Timer
  /\ pc' = "SetTimer.signal"
  /\ call' = [call EXCEPT !.op = "CoreSetTimer", !.Event = frame.Event,
                          !.Type = frame.Type, !.TriggerTime = frame.TriggerTime,
                          !.Status = NULL]
  /\ UNCHANGED <<mEfiSystemTime, CheckTimerSignalled, SystemTime, tickSum,
                 fired, armedAt, tpl, pass, frame>>

\* if (TriggerTime == 0) CoreSignalEvent (mEfiCheckTimerEvent)
SetTimerSignal ==
  /\ pc = "SetTimer.signal"
  /\ CheckTimerSignalled' =
       SignalCheckTimerEvent(CheckTimerSignalled, frame.TriggerTime = 0)
  /\ pc' = "SetTimer.release"
  /\ UNCHANGED <<mEfiTimerList, Timer, mEfiSystemTime, SystemTime, call,
                 tickSum, fired, armedAt, tpl, pass, frame>>

\* CoreReleaseLock (&mEfiTimerLock); return EFI_SUCCESS
SetTimerRelease ==
  /\ pc = "SetTimer.release"
  /\ mEfiTimerLock' = CoreReleaseLock(mEfiTimerLock)
  /\ gEfiCurrentTpl' = mEfiTimerLock.OwnerTpl
  /\ pc' = "idle"
  /\ frame' = NoFrame
  /\ call' = [call EXCEPT !.op = "CoreSetTimer", !.Event = frame.Event,
                          !.Type = frame.Type, !.TriggerTime = frame.TriggerTime,
                          !.Status = EFI_SUCCESS]
  /\ UNCHANGED <<mEfiTimerList, Timer, mEfiSystemTime, CheckTimerSignalled,
                 SystemTime, tickSum, fired, armedAt, mEfiSystemTimeLock, pass>>

\* The notify function of mEfiCheckTimerEvent is entered, which it is only
\* below its notify level, TPL_HIGH_LEVEL - 1: CoreAcquireLock (&mEfiTimerLock).
CheckTimersAcquire ==
  /\ CheckTimerSignalled
  /\ gEfiCurrentTpl < TPL_HIGH_LEVEL - 1
  /\ CheckTimerSignalled' = FALSE
  /\ mEfiTimerLock' = CoreAcquireLock(mEfiTimerLock, gEfiCurrentTpl)
  /\ gEfiCurrentTpl' = mEfiTimerLock.Tpl
  /\ pc' = "CheckTimers.time"
  /\ pass' = [Length |-> Len(mEfiTimerList), Iterations |-> 0, Signalled |-> {}]
  /\ call' = [op |-> "CoreCheckTimers", Event |-> NULL, Type |-> TimerCancel,
              TriggerTime |-> 0, Status |-> EFI_SUCCESS,
              Locks |-> <<"mEfiTimerLock">>,
              WasQueued |-> FALSE, Repeat |-> FALSE]
  /\ UNCHANGED <<mEfiTimerList, Timer, mEfiSystemTime, SystemTime, tickSum,
                 fired, armedAt, mEfiSystemTimeLock, frame>>

\* CoreCurrentSystemTime: CoreAcquireLock (&mEfiSystemTimeLock).
CheckTimersAcquireTime ==
  /\ pc = "CheckTimers.time"
  /\ mEfiSystemTimeLock' = CoreAcquireLock(mEfiSystemTimeLock, gEfiCurrentTpl)
  /\ gEfiCurrentTpl' = mEfiSystemTimeLock.Tpl
  /\ pc' = "CheckTimers.clock"
  /\ call' = [op |-> "CoreCheckTimers", Event |-> NULL, Type |-> TimerCancel,
              TriggerTime |-> 0, Status |-> EFI_SUCCESS,
              Locks |-> <<"mEfiTimerLock", "mEfiSystemTimeLock">>,
              WasQueued |-> FALSE, Repeat |-> FALSE]
  /\ UNCHANGED <<mEfiTimerList, Timer, mEfiSystemTime, CheckTimerSignalled,
                 SystemTime, tickSum, fired, armedAt, mEfiTimerLock, pass, frame>>

\* CoreCurrentSystemTime reads the time and releases mEfiSystemTimeLock;
\* CoreCheckTimers keeps the time in SystemTime.
CheckTimersReadTime ==
  /\ pc = "CheckTimers.clock"
  /\ SystemTime' = mEfiSystemTime
  /\ mEfiSystemTimeLock' = CoreReleaseLock(mEfiSystemTimeLock)
  /\ gEfiCurrentTpl' = mEfiSystemTimeLock.OwnerTpl
  /\ pc' = "loop"
  /\ UNCHANGED <<mEfiTimerList, Timer, mEfiSystemTime, CheckTimerSignalled,
                 call, tickSum, fired, armedAt, mEfiTimerLock, pass, frame>>

\* The head has expired: it is removed from the list and signalled.
CheckTimersRemove ==
  /\ pc = "loop"
  /\ HeadExpired(mEfiTimerList, Timer, SystemTime)
  /\ LET Event == FirstEvent(mEfiTimerList)
         Q1 == UnlinkEvent([List |-> mEfiTimerList, Timer |-> Timer], Event)
     IN  /\ mEfiTimerList' = Q1.List
         /\ Timer' = Q1.Timer
         /\ fired' = [fired EXCEPT ![Event] = Min(@ + 1, MaxFired)]
         /\ pass' = [pass EXCEPT !.Iterations = Min(@ + 1, MaxIterations),
                                 !.Signalled = @ \cup {Event}]
         /\ frame' = [Event |-> Event, Type |-> TimerCancel, TriggerTime |-> 0]
         /\ call' = [op |-> "CoreCheckTimers", Event |-> Event,
                     Type |-> TimerCancel, TriggerTime |-> 0,
                     Status |-> EFI_SUCCESS, Locks |-> <<>>,
                     WasQueued |-> TRUE, Repeat |-> FALSE]
  /\ pc' = "CheckTimers.period"
  /\ UNCHANGED <<mEfiSystemTime, CheckTimerSignalled, SystemTime, tickSum,
                 armedAt, tpl>>

\* If the event that was signalled is periodic it is given its new
\* TriggerTime and is inserted; the loop goes on.
CheckTimersRearm ==
  /\ pc = "CheckTimers.period"
  /\ LET Event == frame.Event
         Next64 == Add64(Timer[Event].TriggerTime, Timer[Event].Period)
         Late == Next64 <= SystemTime
         Q2 == [List  |-> mEfiTimerList,
                Timer |-> [Timer EXCEPT ![Event].TriggerTime =
                                          IF Late THEN SystemTime ELSE Next64]]
         Q3 == CoreInsertEventTimer(Q2, Event)
     IN  IF Timer[Event].Period # 0
           THEN /\ mEfiTimerList' = Q3.List
                /\ Timer' = Q3.Timer
                /\ CheckTimerSignalled' =
                     SignalCheckTimerEvent(CheckTimerSignalled, Late)
           ELSE UNCHANGED <<mEfiTimerList, Timer, CheckTimerSignalled>>
  /\ pc' = "loop"
  /\ frame' = NoFrame
  /\ call' = [op |-> "CoreCheckTimers", Event |-> NULL, Type |-> TimerCancel,
              TriggerTime |-> 0, Status |-> EFI_SUCCESS, Locks |-> <<>>,
              WasQueued |-> FALSE, Repeat |-> FALSE]
  /\ UNCHANGED <<mEfiSystemTime, SystemTime, tickSum, fired, armedAt, tpl, pass>>

----------------------------------------------------------------------------
(* Specifications *)

\* Faulty variant: the levels of the two locks are exchanged.
InitLevelsExchanged ==
  /\ mEfiTimerList = <<>>
  /\ Timer = [e \in Events |-> [TriggerTime |-> 0, Period |-> 0, Link |-> FALSE]]
  /\ mEfiSystemTime = 0
  /\ CheckTimerSignalled = FALSE
  /\ pc = "idle"
  /\ SystemTime = 0
  /\ call = [op |-> "CoreInitializeTimer", Event |-> NULL, Type |-> TimerCancel,
             TriggerTime |-> 0, Status |-> EFI_SUCCESS, Locks |-> <<>>,
             WasQueued |-> FALSE, Repeat |-> FALSE]
  /\ tickSum = 0
  /\ fired = [e \in Events |-> 0]
  /\ armedAt = [e \in Events |-> 0]
  /\ mEfiTimerLock = EFI_INITIALIZE_LOCK_VARIABLE(TPL_HIGH_LEVEL)
  /\ mEfiSystemTimeLock = EFI_INITIALIZE_LOCK_VARIABLE(TPL_HIGH_LEVEL - 1)
  /\ gEfiCurrentTpl = TPL_APPLICATION
  /\ pass = NoPass
  /\ frame = NoFrame

Init ==
  /\ mEfiTimerList = <<>>
  /\ Timer = [e \in Events |-> [TriggerTime |-> 0, Period |-> 0, Link |-> FALSE]]
  /\ mEfiSystemTime = 0
  /\ CheckTimerSignalled = FALSE
  /\ pc = "idle"
  /\ SystemTime = 0
  /\ call = [op |-> "CoreInitializeTimer", Event |-> NULL, Type |-> TimerCancel,
             TriggerTime |-> 0, Status |-> EFI_SUCCESS, Locks |-> <<>>,
             WasQueued |-> FALSE, Repeat |-> FALSE]
  /\ tickSum = 0
  /\ fired = [e \in Events |-> 0]
  /\ armedAt = [e \in Events |-> 0]
  /\ mEfiTimerLock = EFI_INITIALIZE_LOCK_VARIABLE(TPL_HIGH_LEVEL - 1)
  /\ mEfiSystemTimeLock = EFI_INITIALIZE_LOCK_VARIABLE(TPL_HIGH_LEVEL)
  /\ gEfiCurrentTpl = TPL_APPLICATION
  /\ pass = NoPass
  /\ frame = NoFrame

\* Spec: two timer events, every kind of set, delays that do and do not
\* overflow, ticks up to MaxTime.
SetTimer ==
  \E h \in {"A", "B"}, ty \in {TimerCancel, TimerPeriodic, TimerRelative},
     t \in TriggerTimes :
    CoreSetTimer(h, ty, t)

Tick ==
  \E d \in Durations : tickSum + d <= MaxTime /\ CoreTimerTick(d)

Next ==
  \/ SetTimer
  \/ Tick
  \/ CheckTimersBegin
  \/ CheckTimersExpire
  \/ CheckTimersEnd

Spec == Init /\ [][Next]_vars

\* SpecOrder: three timer events, delays of 0, of 1 and one that overflows,
\* ticks of 1 up to MaxOrderTime.
OrderSetTimer ==
  \E h \in TimerEvents, ty \in {TimerCancel, TimerPeriodic, TimerRelative},
     t \in {0, 1, Modulus - 1} :
    CoreSetTimer(h, ty, t)

OrderTick ==
  tickSum + 1 <= MaxOrderTime /\ CoreTimerTick(1)

OrderNext ==
  \/ OrderSetTimer
  \/ OrderTick
  \/ CheckTimersBegin
  \/ CheckTimersExpire
  \/ CheckTimersEnd

SpecOrder == Init /\ [][OrderNext]_vars

\* SpecArgs: every kind of handle and every Type, in and out of range.
ArgsSetTimer ==
  \E h \in {"A"} \cup PlainEvents \cup BadHandles \cup {NULL}, ty \in Types,
     t \in {0, 1} :
    CoreSetTimer(h, ty, t)

ArgsTick ==
  tickSum + 1 <= MaxOrderTime /\ CoreTimerTick(1)

ArgsNext ==
  \/ ArgsSetTimer
  \/ ArgsTick
  \/ CheckTimersBegin
  \/ CheckTimersExpire
  \/ CheckTimersEnd

SpecArgs == Init /\ [][ArgsNext]_vars

\* SpecWrap: one timer event and ticks over the whole range of a UINT64.
\* The ticks keep the system time within MaxTime of the point where it
\* overflows, and stop when their sum has passed 2^Width by MaxTime.
WrapSetTimer ==
  \E ty \in {TimerCancel, TimerPeriodic, TimerRelative}, t \in {0, 1} :
    CoreSetTimer("A", ty, t)

WrapTick ==
  \E d \in {0, 1, Modulus - 2, Modulus - 1} :
    /\ tickSum + d <= Modulus + MaxTime
    /\ \/ Add64(mEfiSystemTime, d) <= MaxTime
       \/ Add64(mEfiSystemTime, d) >= Modulus - MaxTime
    /\ CoreTimerTick(d)

WrapNext ==
  \/ WrapSetTimer
  \/ WrapTick
  \/ CheckTimersBegin
  \/ CheckTimersExpire
  \/ CheckTimersEnd

SpecWrap == Init /\ [][WrapNext]_vars

\* SpecPeriodic: two periodic timers with periods 1 and 2, ticks of 0 and 1
\* (none above a period) up to MaxPeriodicTime.
PeriodicSetTimer ==
  \E h \in {"A", "B"}, ty \in {TimerCancel, TimerPeriodic}, t \in {1, 2} :
    CoreSetTimer(h, ty, t)

PeriodicTick ==
  \E d \in {0, 1} : tickSum + d <= MaxPeriodicTime /\ CoreTimerTick(d)

PeriodicNext ==
  \/ PeriodicSetTimer
  \/ PeriodicTick
  \/ CheckTimersBegin
  \/ CheckTimersExpire
  \/ CheckTimersEnd

SpecPeriodic == Init /\ [][PeriodicNext]_vars

\* SpecScenario: A is set Relative 100, B is set Relative 50, C is set
\* Periodic 41, each at any time and any number of times; ticks of 60 and
\* of 41 up to MaxScenarioTime.
ScenarioSetTimer ==
  \/ CoreSetTimer("A", TimerRelative, 100)
  \/ CoreSetTimer("B", TimerRelative, 50)
  \/ CoreSetTimer("C", TimerPeriodic, 41)

ScenarioTick ==
  \E d \in {60, 41} : tickSum + d <= MaxScenarioTime /\ CoreTimerTick(d)

ScenarioNext ==
  \/ ScenarioSetTimer
  \/ ScenarioTick
  \/ CheckTimersBegin
  \/ CheckTimersExpire
  \/ CheckTimersEnd

SpecScenario == Init /\ [][ScenarioNext]_vars

\* SpecSerial: as Spec, but no CoreTimerTick comes while CoreCheckTimers
\* runs: every operation runs from its first to its last line unpreempted.
SerialSetTimer ==
  \E h \in {"A", "B"}, ty \in {TimerCancel, TimerPeriodic, TimerRelative},
     t \in TriggerTimes :
    CoreSetTimer(h, ty, t)

SerialTick ==
  \E d \in Durations : pc = "idle" /\ tickSum + d <= MaxTime /\ CoreTimerTick(d)

SerialNext ==
  \/ SerialSetTimer
  \/ SerialTick
  \/ CheckTimersBegin
  \/ CheckTimersExpire
  \/ CheckTimersEnd

SpecSerial == Init /\ [][SerialNext]_vars

\* SpecPreempt: CoreSetTimer and CoreCheckTimers step by step, with
\* CoreTimerTick between any two steps that leave the timer interrupt
\* unmasked; two timer events, delays of 0 and 1, ticks up to MaxPreemptTime.
PreemptSetTimer ==
  \E h \in {"A", "B"}, ty \in {TimerCancel, TimerPeriodic, TimerRelative},
     t \in {0, 1} :
    SetTimerEnter(h, ty, t)

PreemptTick ==
  \E d \in {0, 1} : tickSum + d <= MaxPreemptTime /\ CoreTimerTick(d)

PreemptNext ==
  \/ PreemptSetTimer
  \/ SetTimerRemove
  \/ SetTimerAcquireTime
  \/ SetTimerReadTime
  \/ SetTimerInsert
  \/ SetTimerSignal
  \/ SetTimerRelease
  \/ PreemptTick
  \/ CheckTimersAcquire
  \/ CheckTimersAcquireTime
  \/ CheckTimersReadTime
  \/ CheckTimersRemove
  \/ CheckTimersRearm
  \/ CheckTimersEnd

SpecPreempt == Init /\ [][PreemptNext]_vars

----------------------------------------------------------------------------
(* Properties *)

\* The positions of e in the timer list.
Positions(list, e) == {i \in 1 .. Len(list) : list[i] = e}

\* C1. Sort invariant: read head to tail, the timer list has non-decreasing
\* TriggerTime: every entry triggers no later than the entry after it.
C1_SortInvariant ==
  \A i \in 1 .. Len(mEfiTimerList) - 1 :
    Timer[mEfiTimerList[i]].TriggerTime <= Timer[mEfiTimerList[i + 1]].TriggerTime

\* CoreCheckTimers has just set a periodic timer again, behind an entry
\* that triggers earlier.
C1_Witness ==
  /\ call.op = "CoreCheckTimers"
  /\ Len(mEfiTimerList) = 2
  /\ call.Event = mEfiTimerList[2]
  /\ Timer[mEfiTimerList[1]].TriggerTime < Timer[mEfiTimerList[2]].TriggerTime

\* C2. No duplicate queue membership: every event is in the timer list at
\* most once, its forward link is non-null exactly when it is in the list,
\* and after CoreSetTimer has set (Periodic or Relative) an event, armed
\* before or not, the list holds exactly one entry for it.
C2_NoDuplicate ==
  /\ \A e \in Events :
       /\ Cardinality(Positions(mEfiTimerList, e)) <= 1
       /\ Timer[e].Link <=> Positions(mEfiTimerList, e) # {}
  /\ (/\ call.op = "CoreSetTimer"
      /\ call.Status = EFI_SUCCESS
      /\ call.Type # TimerCancel)
       => Cardinality(Positions(mEfiTimerList, call.Event)) = 1

\* CoreSetTimer has just set an event that was already in the list.
C2_Witness ==
  /\ call.op = "CoreSetTimer"
  /\ call.Status = EFI_SUCCESS
  /\ call.Type = TimerPeriodic
  /\ call.WasQueued
  /\ Len(mEfiTimerList) = 2

\* The step is a call of CoreSetTimer that returned EFI_SUCCESS.
SetTimerSucceeded == call'.op = "CoreSetTimer" /\ call'.Status = EFI_SUCCESS

\* C3. CoreSetTimer returns EFI_INVALID_PARAMETER when the event is NULL,
\* has no EVT_TIMER, or the Type is none of TimerCancel, TimerPeriodic,
\* TimerRelative; and then nothing is changed: not the list, not any
\* TriggerTime or Period, not the system time, not the pending run of
\* CoreCheckTimers, and no lock is acquired.
C3_InvalidParameter ==
  [][(/\ call'.op = "CoreSetTimer"
      /\ \/ call'.Event = NULL
         \/ call'.Event \notin TimerEvents
         \/ call'.Type \notin {TimerCancel, TimerPeriodic, TimerRelative})
       => /\ call'.Status = EFI_INVALID_PARAMETER
          /\ call'.Locks = <<>>
          /\ UNCHANGED <<mEfiTimerList, Timer, mEfiSystemTime,
                         CheckTimerSignalled, pc, SystemTime>>]_vars

\* CoreSetTimer has refused an event without EVT_TIMER while a timer is queued.
C3_Witness ==
  /\ call.op = "CoreSetTimer"
  /\ call.Status = EFI_INVALID_PARAMETER
  /\ call.Event \in PlainEvents
  /\ call.Type = TimerRelative
  /\ mEfiTimerList # <<>>

\* C4. After a successful CoreSetTimer (e, Periodic or Relative, t), whether
\* e was armed before or not, e is queued with TriggerTime = current time + t
\* (UINT64 addition) and Period = t for Periodic, 0 for Relative; every other
\* entry keeps its TriggerTime, its Period and its place relative to the others.
C4_SetTimerArms ==
  [][(SetTimerSucceeded /\ call'.Type \in {TimerPeriodic, TimerRelative})
       => LET e == call'.Event
              t == call'.TriggerTime
          IN  /\ Timer'[e].Link
              /\ Cardinality(Positions(mEfiTimerList', e)) = 1
              /\ Timer'[e].TriggerTime = Add64(mEfiSystemTime', t)
              /\ Timer'[e].Period = IF call'.Type = TimerPeriodic THEN t ELSE 0
              /\ \A o \in Events \ {e} : Timer'[o] = Timer[o]
              /\ RemoveEntryList(mEfiTimerList', e) = RemoveEntryList(mEfiTimerList, e)
              /\ mEfiSystemTime' = mEfiSystemTime]_vars

\* A periodic timer that was queued has been set again as a one-shot, with
\* two other timers in the list.
C4_Witness ==
  /\ call.op = "CoreSetTimer"
  /\ call.Status = EFI_SUCCESS
  /\ call.Type = TimerRelative
  /\ call.WasQueued
  /\ Len(mEfiTimerList) = 3
  /\ call.Event = mEfiTimerList[2]

\* C5. Cancel is idempotent and safe: CoreSetTimer (e, TimerCancel, _) on a
\* timer event, armed or not, returns EFI_SUCCESS and leaves e out of the
\* list with TriggerTime = 0 and Period = 0; it requests no run of
\* CoreCheckTimers and touches no other entry; a second Cancel right after
\* the first changes nothing.
C5_CancelIdempotent ==
  [][(/\ call'.op = "CoreSetTimer"
      /\ call'.Event \in TimerEvents
      /\ call'.Type = TimerCancel)
       => LET e == call'.Event
          IN  /\ call'.Status = EFI_SUCCESS
              /\ ~Timer'[e].Link
              /\ Positions(mEfiTimerList', e) = {}
              /\ Timer'[e].TriggerTime = 0
              /\ Timer'[e].Period = 0
              /\ CheckTimerSignalled' = CheckTimerSignalled
              /\ \A o \in Events \ {e} : Timer'[o] = Timer[o]
              /\ mEfiTimerList' = RemoveEntryList(mEfiTimerList, e)
              /\ mEfiSystemTime' = mEfiSystemTime
              /\ (/\ call.op = "CoreSetTimer"
                  /\ call.Status = EFI_SUCCESS
                  /\ call.Type = TimerCancel
                  /\ call.Event = e)
                   => UNCHANGED <<mEfiTimerList, Timer, mEfiSystemTime,
                                  CheckTimerSignalled, pc, SystemTime>>]_vars

\* An event has been cancelled twice in a row, another timer being queued
\* and no run of CoreCheckTimers pending.
C5_Witness ==
  /\ call.op = "CoreSetTimer"
  /\ call.Status = EFI_SUCCESS
  /\ call.Type = TimerCancel
  /\ call.Repeat
  /\ ~Timer[call.Event].Link
  /\ mEfiTimerList # <<>>
  /\ ~CheckTimerSignalled

\* C6 as amended. Clock modulo 2^64: after any sequence of CoreTimerTick (d)
\* the system time is the sum of every d so far modulo 2^64; a tick that
\* does not carry the sum past 2^64 - 1 adds d and so does not decrease the
\* time; nothing but CoreTimerTick changes mEfiSystemTime.
C6_ClockModulo ==
  /\ [](mEfiSystemTime = tickSum % Modulus)
  /\ [][((call'.op = "CoreTimerTick"
           /\ mEfiSystemTime + call'.TriggerTime < Modulus)
            => (/\ mEfiSystemTime' = mEfiSystemTime + call'.TriggerTime
                /\ mEfiSystemTime' >= mEfiSystemTime))
        /\ (mEfiSystemTime' # mEfiSystemTime => call'.op = "CoreTimerTick")]_vars

\* A tick has carried the sum of the durations past 2^Width with a timer queued.
C6_Witness ==
  /\ call.op = "CoreTimerTick"
  /\ tickSum > Modulus
  /\ mEfiSystemTime = tickSum - Modulus
  /\ mEfiTimerList # <<>>

\* C6 as claimed. Monotonic clock: over the full range of d the system time
\* never decreases and is the sum of every d so far, and nothing but
\* CoreTimerTick changes it.
C6_MonotonicClock ==
  [][(mEfiSystemTime' >= mEfiSystemTime)
     /\ (mEfiSystemTime' = tickSum')
     /\ (mEfiSystemTime' # mEfiSystemTime => call'.op = "CoreTimerTick")]_vars

\* The step is the end of a run of CoreCheckTimers.
CheckTimersEnds == pc = "loop" /\ pc' = "idle"

\* The step is a successful CoreSetTimer on e.
SetTimerOn(e) == SetTimerSucceeded /\ call'.Event = e

\* e was set as a one-shot (Period = 0) and not cancelled since.
OneShot(e) == Timer[e].Period = 0 /\ (Timer[e].Link \/ fired[e] > 0)

\* C7. One-shot fires once: a timer set with Relative t and not set again is
\* signalled at most once and is out of the list once signalled; when a run
\* of CoreCheckTimers that read a time at or past current time + t (the
\* TriggerTime of the timer) ends, the timer has been signalled exactly once
\* and is not in the list; and no later tick or run signals it again.
C7_OneShotFiresOnce ==
  /\ [](\A e \in TimerEvents :
          OneShot(e) => /\ fired[e] <= 1
                        /\ fired[e] = 1 <=> ~Timer[e].Link)
  /\ [][(CheckTimersEnds
          => \A e \in TimerEvents :
               (OneShot(e) /\ Timer[e].TriggerTime <= SystemTime)
                 => (fired'[e] = 1 /\ ~Timer'[e].Link))
        /\ (\A e \in TimerEvents :
              (OneShot(e) /\ fired[e] = 1 /\ ~SetTimerOn(e))
                => (fired'[e] = 1 /\ ~Timer'[e].Link /\ Timer'[e] = Timer[e]))]_vars

\* A was set at time 1 to trigger at time 2, has been signalled once, and a
\* run of CoreCheckTimers at time 4 has ended without signalling it again.
C7_Witness ==
  /\ pc = "idle"
  /\ call.op = "CoreCheckTimers"
  /\ armedAt["A"] = 1
  /\ Timer["A"] = [TriggerTime |-> 2, Period |-> 0, Link |-> FALSE]
  /\ fired["A"] = 1
  /\ tickSum = 4
  /\ fired["B"] >= 2

\* e was set with a zero TriggerTime and has been neither signalled nor set since.
ZeroArmed(e) ==
  /\ Timer[e].Link
  /\ Timer[e].Period = 0
  /\ fired[e] = 0
  /\ Timer[e].TriggerTime = armedAt[e] % Modulus

\* C9. Zero-delay arm: CoreSetTimer (e, TimerRelative, 0) queues e with
\* TriggerTime equal to the current time and signals mEfiCheckTimerEvent;
\* until e is set again the run stays requested, the run that follows finds
\* e expired, signals it once and unlinks it before it ends, with or without
\* a tick in between.
C9_ZeroDelayArm ==
  /\ [](\A e \in TimerEvents :
          ZeroArmed(e) => IF pc = "idle"
                            THEN CheckTimerSignalled
                            ELSE Timer[e].TriggerTime <= SystemTime)
  /\ [][((SetTimerSucceeded /\ call'.Type = TimerRelative /\ call'.TriggerTime = 0)
           => (/\ Timer'[call'.Event].Link
               /\ Timer'[call'.Event].TriggerTime = mEfiSystemTime'
               /\ Timer'[call'.Event].Period = 0
               /\ CheckTimerSignalled'))
        /\ (\A e \in TimerEvents :
              (ZeroArmed(e) /\ ~ZeroArmed(e)' /\ ~SetTimerOn(e))
                => (/\ pc = "loop"
                    /\ fired'[e] = 1
                    /\ ~Timer'[e].Link))
        /\ (CheckTimersEnds => \A e \in TimerEvents : ~ZeroArmed(e)')]_vars

\* A was set with a zero delay at time 0, the run that followed has signalled
\* it and ended, and CoreTimerTick was never called.
C9_Witness ==
  /\ pc = "idle"
  /\ call.op = "CoreCheckTimers"
  /\ tickSum = 0
  /\ fired["A"] = 1
  /\ Timer["A"] = [TriggerTime |-> 0, Period |-> 0, Link |-> FALSE]
  /\ Timer["B"].Link

\* e is queued as a periodic timer.
Periodic(e) == Timer[e].Link /\ Timer[e].Period > 0

\* The time that has passed since e was set.
Elapsed(e) == tickSum - armedAt[e]

\* The next deadline of e is the one that follows its fired[e]-th deadline
\* on the grid T0 + p, T0 + 2p, ... of the time T0 it was set at.
OnPhase(e) ==
  Timer[e].TriggerTime = armedAt[e] + (fired[e] + 1) * Timer[e].Period

\* The step is an iteration of CoreCheckTimers that finds e more than one
\* period past its deadline.
ExpiresLate(e) ==
  /\ pc = "loop"
  /\ call'.op = "CoreCheckTimers"
  /\ call'.Event = e
  /\ SystemTime > Timer[e].TriggerTime + Timer[e].Period

\* C8 as amended. Periodic phase preservation: a timer set with Periodic p > 0
\* at time T0 starts on the grid T0 + p, T0 + 2p, ...; it stays on it through
\* every tick and every run of CoreCheckTimers but a run that finds it more
\* than p past its deadline; and while it is on the grid and its next
\* deadline is ahead of the clock it has been signalled exactly k times when
\* k*p <= elapsed time < (k+1)*p, so exactly k times after k*p, for deadlines
\* T0 + p, ..., T0 + k*p.
C8_PhaseUnlessLate ==
  /\ [](\A e \in TimerEvents :
          (Periodic(e) /\ OnPhase(e) /\ fired[e] < MaxFired)
            => /\ armedAt[e] + fired[e] * Timer[e].Period <= tickSum
               /\ (Timer[e].TriggerTime > mEfiSystemTime
                     => fired[e] = Elapsed(e) \div Timer[e].Period))
  /\ [][\A e \in TimerEvents :
          /\ (SetTimerOn(e) /\ call'.Type = TimerPeriodic /\ call'.TriggerTime > 0)
               => (Periodic(e)' /\ OnPhase(e)' /\ fired'[e] = 0)
          /\ (Periodic(e) /\ OnPhase(e) /\ fired[e] < MaxFired
                /\ ~SetTimerOn(e) /\ ~ExpiresLate(e))
               => (Periodic(e)' /\ OnPhase(e)')]_vars

\* A has period 2 and was set at time 0; the runs of CoreCheckTimers came
\* after two ticks each; at time 4 it has been signalled twice and waits for 6.
C8_Witness ==
  /\ pc = "idle"
  /\ ~CheckTimerSignalled
  /\ call.op = "CoreCheckTimers"
  /\ armedAt["A"] = 0
  /\ tickSum = 4
  /\ fired["A"] = 2
  /\ Timer["A"] = [TriggerTime |-> 6, Period |-> 2, Link |-> TRUE]

\* C8 as claimed. Periodic phase preservation: k*p after a timer was set with
\* Periodic p, no tick having exceeded p, and with no run of CoreCheckTimers
\* outstanding, the timer has been signalled exactly k times and waits for
\* T0 + (k+1)*p, however late the runs were.
C8_PhasePreserved ==
  \A e \in TimerEvents :
    (/\ Periodic(e)
     /\ pc = "idle"
     /\ ~CheckTimerSignalled
     /\ fired[e] < MaxFired
     /\ Elapsed(e) >= Timer[e].Period
     /\ Elapsed(e) % Timer[e].Period = 0)
      => /\ fired[e] = Elapsed(e) \div Timer[e].Period
         /\ OnPhase(e)

\* No run of CoreCheckTimers is in progress or requested.
Quiet == pc = "idle" /\ ~CheckTimerSignalled

\* C10. A run of CoreCheckTimers signals only entries whose TriggerTime is at
\* or before the time it has read, and leaves every entry that triggers
\* later queued with TriggerTime and Period unchanged.  In particular: with A
\* set Relative 100 and B set Relative 50 at time 0 the list is <<B, A>>;
\* after a tick of 60 and a run, B has been signalled and A has not and is
\* queued with TriggerTime 100; after a further tick of 41 and a run, A has
\* been signalled.
C10_ExpiredOnly ==
  /\ [](/\ (/\ Timer["A"].Link /\ Timer["B"].Link
            /\ armedAt["A"] = armedAt["B"])
             => RemoveEntryList(mEfiTimerList, "C") = <<"B", "A">>
        /\ (/\ Quiet
            /\ tickSum = 60
            /\ armedAt["A"] = 0 /\ Timer["A"].TriggerTime = 100
            /\ armedAt["B"] = 0 /\ Timer["B"].TriggerTime = 50)
             => /\ fired["B"] = 1 /\ ~Timer["B"].Link
                /\ fired["A"] = 0
                /\ Timer["A"] = [TriggerTime |-> 100, Period |-> 0, Link |-> TRUE]
                /\ RemoveEntryList(mEfiTimerList, "C") = <<"A">>
        /\ (/\ Quiet
            /\ tickSum = 60 + 41
            /\ armedAt["A"] = 0 /\ Timer["A"].TriggerTime = 100)
             => (fired["A"] = 1 /\ ~Timer["A"].Link))
  /\ [][\A e \in TimerEvents :
          /\ fired'[e] # fired[e] /\ ~SetTimerOn(e)
               => /\ pc = "loop"
                  /\ Timer[e].Link
                  /\ Timer[e].TriggerTime <= SystemTime
                  /\ fired'[e] = fired[e] + 1
          /\ (pc = "loop" /\ Timer[e].Link /\ Timer[e].TriggerTime > SystemTime)
               => (Timer'[e] = Timer[e] /\ fired'[e] = fired[e]
                   /\ Positions(mEfiTimerList', e) # {})]_vars

\* A and B were set at time 0; after a tick of 60 the run has signalled B
\* and left A, which waits for time 100.
C10_Witness ==
  /\ Quiet
  /\ call.op = "CoreCheckTimers"
  /\ tickSum = 60
  /\ armedAt["A"] = 0
  /\ armedAt["B"] = 0
  /\ fired["B"] = 1
  /\ fired["A"] = 0
  /\ fired["C"] = 1
  /\ mEfiTimerList = <<"C", "A">>
  /\ Timer["A"].TriggerTime = 100

\* C11. CoreTimerTick (d) does not run CoreCheckTimers and does not change
\* the timer list: it adds d to the system time (UINT64 addition) and, exactly
\* when the list is not empty and the TriggerTime of its head is at or before
\* the new time, requests a run of CoreCheckTimers, which is pending after
\* the tick if and only if it was pending before or has been requested; the
\* list, every TriggerTime and Period, the events signalled so far, the
\* position of a run in progress and the time it has read are unchanged, and
\* the only lock acquired is mEfiSystemTimeLock.
C11_TickFrame ==
  [][call'.op = "CoreTimerTick"
       => /\ mEfiSystemTime' = Add64(mEfiSystemTime, call'.TriggerTime)
          /\ CheckTimerSignalled' <=>
                \/ CheckTimerSignalled
                \/ /\ mEfiTimerList # <<>>
                   /\ Timer[mEfiTimerList[1]].TriggerTime <= mEfiSystemTime'
          /\ UNCHANGED <<mEfiTimerList, Timer, fired, pc, SystemTime, pass, tpl>>
          /\ call'.Locks = <<"mEfiSystemTimeLock">>
          /\ mEfiTimerLock'.Lock = mEfiTimerLock.Lock]_vars

\* A tick has come between two iterations of CoreCheckTimers, has found the
\* head of the list expired and has requested another run; an entry behind
\* the head is not expired.
C11_Witness ==
  /\ call.op = "CoreTimerTick"
  /\ call.TriggerTime > 0
  /\ pc = "loop"
  /\ pass.Iterations > 0
  /\ CheckTimerSignalled
  /\ Len(mEfiTimerList) = 2
  /\ Timer[mEfiTimerList[1]].TriggerTime = mEfiSystemTime
  /\ Timer[mEfiTimerList[2]].TriggerTime > mEfiSystemTime

\* The step is an iteration of CoreCheckTimers, which signals call'.Event.
CheckTimersSignals == pc = "loop" /\ call'.op = "CoreCheckTimers" /\ call'.Event # NULL

\* C13. In one run of CoreCheckTimers, a periodic entry whose new deadline
\* TriggerTime + Period is still at or before the time the run has read is
\* queued again with TriggerTime equal to that time and another run is
\* requested, and the entry is not signalled a second time in the same run:
\* every entry is signalled at most once per run.
C13_OncePerPass ==
  [][CheckTimersSignals
       => LET e == call'.Event
          IN  /\ e \notin pass.Signalled
              /\ (/\ Timer[e].Period # 0
                  /\ Add64(Timer[e].TriggerTime, Timer[e].Period) <= SystemTime)
                   => /\ Timer'[e].Link
                      /\ Timer'[e].TriggerTime = SystemTime
                      /\ CheckTimerSignalled']_vars

\* C14. Every operation terminates: a run of CoreCheckTimers leaves its loop
\* after a number of iterations that is at most the length the list had when
\* the run began, whatever the list, the system time and the periods (the
\* deadlines being computed modulo 2^64).
C14_BoundedPass ==
  pass.Iterations <= pass.Length

\* The step links call'.Event into the list: a CoreSetTimer that sets it, or
\* an iteration of CoreCheckTimers that sets a periodic timer again.
InsertsEvent ==
  \/ SetTimerSucceeded /\ call'.Type # TimerCancel
  \/ CheckTimersSignals /\ Timer'[call'.Event].Link

\* C18. Stable insertion: an insert places the new entry behind every entry
\* with an equal or smaller TriggerTime and right before the first entry with
\* a larger one (or at the tail), and leaves the other entries in the order
\* they had; CoreCheckTimers signals the head of the list; so entries with
\* equal deadlines are queued, and signalled, in the order of their inserts.
\* A periodic entry that CoreCheckTimers sets again is inserted the same way.
C18_StableInsertion ==
  [][/\ InsertsEvent
         => LET e == call'.Event
                i == CHOOSE k \in Positions(mEfiTimerList', e) : TRUE
            IN  /\ Positions(mEfiTimerList', e) = {i}
                /\ \A j \in 1 .. Len(mEfiTimerList') :
                     /\ j < i => Timer'[mEfiTimerList'[j]].TriggerTime
                                   <= Timer'[e].TriggerTime
                     /\ j > i => Timer'[mEfiTimerList'[j]].TriggerTime
                                   > Timer'[e].TriggerTime
                /\ RemoveEntryList(mEfiTimerList', e) = RemoveEntryList(mEfiTimerList, e)
     /\ CheckTimersSignals => call'.Event = Head(mEfiTimerList)]_vars

\* CoreCheckTimers has set the periodic timer A again: it is behind B, which
\* has the same TriggerTime and was there before, and ahead of C, which
\* triggers later.
C18_Witness ==
  /\ call.op = "CoreCheckTimers"
  /\ call.Event = "A"
  /\ mEfiTimerList = <<"B", "A", "C">>
  /\ Timer["B"].TriggerTime = Timer["A"].TriggerTime
  /\ Timer["A"].TriggerTime < Timer["C"].TriggerTime

\* The delay t that e was last set with: its Period if it is periodic, else
\* its TriggerTime less the system time it was set at (UINT64 subtraction).
ArmedDelay(e) ==
  IF Timer[e].Period # 0
    THEN Timer[e].Period
    ELSE (Timer[e].TriggerTime + Modulus - (armedAt[e] % Modulus)) % Modulus

\* C19. No early firing: after CoreSetTimer (e, Relative or Periodic, t), for
\* every 64-bit t, CoreCheckTimers does not signal e while the ticks since
\* that call have added less than t to the clock.
C19_NoEarlyFiring ==
  [][CheckTimersSignals
       => Elapsed(call'.Event) >= ArmedDelay(call'.Event)]_vars

\* C20. Pending-run invariant: when CoreSetTimer, CoreTimerTick and
\* CoreCheckTimers each run unpreempted, between two operations a run of
\* CoreCheckTimers is pending whenever the list is not empty and the
\* TriggerTime of its head is at or before the system time.
C20_PendingRun ==
  pc = "idle"
    => (HeadExpired(mEfiTimerList, Timer, mEfiSystemTime) => CheckTimerSignalled)

\* The lock is acquired.
Held(Lock) == Lock.Lock = EfiLockAcquired

\* No CoreAcquireLock has found its lock acquired or its level below the
\* current one, no CoreReleaseLock has found its lock released.
NoLockFault ==
  mEfiTimerLock.Lock # EfiLockFault /\ mEfiSystemTimeLock.Lock # EfiLockFault

\* The step is the next step of a CoreSetTimer or CoreCheckTimers in progress.
RoutineStep ==
  \/ SetTimerRemove
  \/ SetTimerAcquireTime
  \/ SetTimerReadTime
  \/ SetTimerInsert
  \/ SetTimerSignal
  \/ SetTimerRelease
  \/ CheckTimersAcquireTime
  \/ CheckTimersReadTime
  \/ CheckTimersRemove
  \/ CheckTimersRearm
  \/ CheckTimersEnd

\* C15. Lock ordering: whenever both locks are held, mEfiTimerLock was
\* acquired first and mEfiSystemTimeLock inside it, by CoreCurrentSystemTime
\* called from CoreSetTimer or CoreCheckTimers; mEfiTimerLock is never
\* acquired, nor released, while mEfiSystemTimeLock is held; CoreTimerTick
\* acquires mEfiSystemTimeLock only; no lock is acquired while it is held;
\* and a routine in progress can always take its next step: no reachable
\* state is a deadlock.
C15_LockOrder ==
  /\ [](/\ NoLockFault
        /\ Held(mEfiSystemTimeLock)
             => /\ Held(mEfiTimerLock)
                /\ mEfiSystemTimeLock.OwnerTpl = mEfiTimerLock.Tpl
                /\ pc \in {"SetTimer.clock", "CheckTimers.clock"}
        /\ pc # "idle" => ENABLED RoutineStep)
  /\ [][/\ Held(mEfiTimerLock)' # Held(mEfiTimerLock)
             => ~Held(mEfiSystemTimeLock) /\ ~Held(mEfiSystemTimeLock)'
        /\ call'.op = "CoreTimerTick"
             => /\ call'.Locks = <<"mEfiSystemTimeLock">>
                /\ UNCHANGED <<mEfiTimerLock, mEfiSystemTimeLock>>
                /\ ~Held(mEfiSystemTimeLock)]_vars

\* CoreSetTimer holds both locks inside CoreCurrentSystemTime, after a tick
\* that came while it held mEfiTimerLock alone.
C15_Witness ==
  /\ pc = "SetTimer.clock"
  /\ Held(mEfiTimerLock)
  /\ Held(mEfiSystemTimeLock)
  /\ tickSum > 0
  /\ mEfiTimerList # <<>>
  /\ ~Timer[frame.Event].Link

\* C16 as amended. The level of mEfiSystemTimeLock (TPL_HIGH_LEVEL) is
\* strictly above the level of mEfiTimerLock (TPL_HIGH_LEVEL - 1), so that
\* acquiring mEfiSystemTimeLock inside mEfiTimerLock raises the task priority
\* level: every lock is acquired at a level at or below its own, and the
\* current level is the level of the lock acquired last.
C16_ClockAboveQueue ==
  /\ NoLockFault
  /\ mEfiSystemTimeLock.Tpl > mEfiTimerLock.Tpl
  /\ Held(mEfiTimerLock) => mEfiTimerLock.OwnerTpl <= mEfiTimerLock.Tpl
  /\ Held(mEfiSystemTimeLock)
       => /\ mEfiSystemTimeLock.OwnerTpl = mEfiTimerLock.Tpl
          /\ mEfiSystemTimeLock.OwnerTpl < mEfiSystemTimeLock.Tpl
  /\ gEfiCurrentTpl = IF Held(mEfiSystemTimeLock) THEN mEfiSystemTimeLock.Tpl
                      ELSE IF Held(mEfiTimerLock) THEN mEfiTimerLock.Tpl
                      ELSE TPL_APPLICATION

\* CoreCheckTimers holds both locks inside CoreCurrentSystemTime: the level
\* went from TPL_APPLICATION to TPL_HIGH_LEVEL - 1 to TPL_HIGH_LEVEL.
C16_Witness ==
  /\ pc = "CheckTimers.clock"
  /\ mEfiTimerLock.OwnerTpl = TPL_APPLICATION
  /\ mEfiSystemTimeLock.OwnerTpl = TPL_HIGH_LEVEL - 1
  /\ gEfiCurrentTpl = TPL_HIGH_LEVEL
  /\ mEfiTimerList # <<>>

\* C16 as claimed. The level of mEfiTimerLock is strictly above the level of
\* mEfiSystemTimeLock, which is acquired inside it.
C16_QueueAboveClock ==
  (Held(mEfiTimerLock) /\ Held(mEfiSystemTimeLock))
    => mEfiTimerLock.Tpl > mEfiSystemTimeLock.Tpl

\* C17. CoreCheckTimers is never re-entered and runs inside mEfiTimerLock:
\* the lock is held exactly while one CoreSetTimer or one CoreCheckTimers is
\* between its CoreAcquireLock and its CoreReleaseLock, and is never acquired
\* while held; a run that was requested starts only when neither is, so never
\* while CoreSetTimer holds the lock; the requests made until a run starts
\* make one pending run, which the start of the run uses up; and every
\* insert into the list is made with the lock held.
C17_OneInQueueSection ==
  /\ [](/\ NoLockFault
        /\ Held(mEfiTimerLock) <=> pc \in InSetTimer \cup InCheckTimers)
  /\ [][/\ (call'.op = "CoreCheckTimers" /\ pc' = "CheckTimers.time")
             => /\ pc = "idle"
                /\ ~Held(mEfiTimerLock)
                /\ CheckTimerSignalled
                /\ ~CheckTimerSignalled'
        /\ (CheckTimerSignalled /\ ~CheckTimerSignalled')
             => (call'.op = "CoreCheckTimers" /\ pc' = "CheckTimers.time")
        /\ (\E e \in Events : ~Timer[e].Link /\ Timer'[e].Link)
             => (Held(mEfiTimerLock) /\ Held(mEfiTimerLock)')]_vars

\* CoreSetTimer, called with a zero TriggerTime, has requested a run and
\* holds mEfiTimerLock still; a tick has found the head expired and has
\* requested the run again; the run is pending and has not started.
C17_Witness ==
  /\ pc = "SetTimer.release"
  /\ frame.Type # TimerCancel
  /\ frame.TriggerTime = 0
  /\ call.op = "CoreTimerTick"
  /\ HeadExpired(mEfiTimerList, Timer, mEfiSystemTime)
  /\ CheckTimerSignalled
  /\ Held(mEfiTimerLock)

\* SpecPreemptFair: SpecPreempt in which ticks keep coming (the timer
\* interrupt is masked at TPL_HIGH_LEVEL only, and is taken when the level
\* goes down again), a routine in progress takes its next step, and the
\* notify function of mEfiCheckTimerEvent is entered if it stays pending
\* below its level.
SpecPreemptFair ==
  /\ SpecPreempt
  /\ SF_vars(PreemptTick)
  /\ WF_vars(RoutineStep)
  /\ WF_vars(CheckTimersAcquire)

\* Every run of CoreCheckTimers that is requested starts.
RunsExecuted == CheckTimerSignalled ~> ~CheckTimerSignalled

\* C12. No tick is lost: with CoreTimerTick coming between any two steps of
\* CoreSetTimer and CoreCheckTimers that hold mEfiTimerLock (and none while
\* mEfiSystemTimeLock is held), if ticks keep coming and every requested run
\* of CoreCheckTimers starts, every event that is queued with a TriggerTime
\* at or before the system time leaves the list: CoreCheckTimers removes and
\* signals it, or CoreSetTimer removes it to cancel or set it again.
C12_NoTickLost ==
  RunsExecuted
    => \A e \in TimerEvents :
         (Timer[e].Link /\ Timer[e].TriggerTime <= mEfiSystemTime)
           ~> ~Timer[e].Link

\* CoreSetTimer (A, TimerRelative, 1) has returned; the tick that made A
\* expire came after the time was read and before A was inserted, and found
\* the list empty: A is expired and no run has been requested.
C12_Witness ==
  /\ pc = "idle"
  /\ call.op = "CoreSetTimer"
  /\ call.Status = EFI_SUCCESS
  /\ call.Event = "A"
  /\ call.Type = TimerRelative
  /\ call.TriggerTime = 1
  /\ mEfiTimerList = <<"A">>
  /\ Timer["A"].TriggerTime = mEfiSystemTime
  /\ armedAt["A"] < tickSum
  /\ fired["A"] = 0
  /\ ~CheckTimerSignalled

====
